---- MODULE Spec2Model ----
(***************************************************************************)
(* A model of gitcng: a depth-bounded recursive walk over a directory     *)
(* tree that, for every directory that opens as a git repository, counts  *)
(* local changes, fetches from origin through the SSH agent, counts the   *)
(* commits the remote-tracking branch is ahead by and appends one record  *)
(* to a global list, which main prints after the walk.                    *)
(*                                                                         *)
(* Strings that the code inspects character by character (remote URLs,    *)
(* user names) are sequences of one-character strings.  Paths are         *)
(* sequences of entry names relative to the root path, so that            *)
(* filepath.Join(path, name) is Append(path, name).                       *)
(***************************************************************************)
EXTENDS Integers, Sequences, FiniteSets, TLC

VARIABLES
    maxDepth,     \* the global maxDepth, set by main from the -depth flag
    repos,        \* the global result list []repoStatus
    sshAuthSock,  \* the environment: "set" or "unset" (SSH_AUTH_SOCK)
    repoDirs,     \* the file system: the paths git.PlainOpen opens
    unreadable,   \* the file system: the directories os.ReadDir fails on
    pc,           \* main's position: "start", "walk", "report", "done"
    stack,        \* the call stack of visitAndCheckGit, top first
    printed,      \* what main has written to standard output, in order
    visited,      \* history: the paths git.PlainOpen was called on, in order
    listed,       \* history: the paths os.ReadDir was called on
    healthy,      \* history: repositories visited with every step succeeding
    faulty,       \* history: repositories visited with some step failing
    last,         \* history: the most recent repository visit, step by step
    probe         \* the input and output of a function applied on its own

vars == <<maxDepth, repos, sshAuthSock, repoDirs, unreadable, pc, stack,
          printed, visited, listed, healthy, faulty, last, probe>>

----------------------------------------------------------------------------
(* Bounds of the model.                                                    *)

\* the -depth values tried are 0..MaxDepthFlag and the flag's default
MaxDepthFlag == 1
\* at most this many directories of the tree open as repositories
MaxRepos == 2
\* status snapshots have at most this many paths
MaxFiles == 3
\* commit histories have at most this many commits
MaxCommits == 3
\* remote URLs have at most this many characters
MaxURLLen == 6

\* flag.Int("depth", 4, ...)
DefaultDepth == 4

----------------------------------------------------------------------------
(* Strings as sequences of characters.                                     *)

Str_git == <<"g", "i", "t">>
Str_gitAt == <<"g", "i", "t", "@">>

\* strings.HasPrefix
HasPrefix(s, p) == Len(s) >= Len(p) /\ SubSeq(s, 1, Len(p)) = p

\* strings.Index for a one-character separator: 0 when absent
Index(s, c) ==
    IF \E i \in 1..Len(s) : s[i] = c
    THEN CHOOSE i \in 1..Len(s) : s[i] = c /\ \A j \in 1..(i - 1) : s[j] # c
    ELSE 0

\* strings.LastIndex for a one-character separator: 0 when absent
LastIndex(s, c) ==
    IF \E i \in 1..Len(s) : s[i] = c
    THEN CHOOSE i \in 1..Len(s) : s[i] = c /\ \A j \in (i + 1)..Len(s) : s[j] # c
    ELSE 0

\* the part of s before the first c (all of s when c is absent)
Before(s, c) == IF Index(s, c) = 0 THEN s ELSE SubSeq(s, 1, Index(s, c) - 1)

\* the part of s from position i on
From(s, i) == SubSeq(s, i, Len(s))

\* strings.Split(s, "@"): the parts between the separators
RECURSIVE Split(_, _)
Split(s, c) ==
    IF Index(s, c) = 0 THEN <<s>>
    ELSE <<SubSeq(s, 1, Index(s, c) - 1)>> \o Split(From(s, Index(s, c) + 1), c)

Letters == {"g", "i", "t"}
Digits == {"2"}

----------------------------------------------------------------------------
(* net/url.Parse, for URLs without query, fragment, escapes or brackets.   *)

\* getScheme: [err, scheme, rest]
RECURSIVE getSchemeAt(_, _)
getSchemeAt(raw, i) ==
    IF i > Len(raw) THEN [err |-> FALSE, scheme |-> <<>>, rest |-> raw]
    ELSE IF raw[i] \in Letters THEN getSchemeAt(raw, i + 1)
    ELSE IF raw[i] \in Digits
         THEN IF i = 1 THEN [err |-> FALSE, scheme |-> <<>>, rest |-> raw]
              ELSE getSchemeAt(raw, i + 1)
    ELSE IF raw[i] = ":"
         THEN IF i = 1 THEN [err |-> TRUE, scheme |-> <<>>, rest |-> <<>>]
              ELSE [err |-> FALSE, scheme |-> SubSeq(raw, 1, i - 1),
                    rest |-> From(raw, i + 1)]
    ELSE [err |-> FALSE, scheme |-> <<>>, rest |-> raw]

getScheme(raw) == getSchemeAt(raw, 1)

\* validOptionalPort: "" or ":" followed by digits
validOptionalPort(port) ==
    \/ port = <<>>
    \/ port[1] = ":" /\ \A k \in 2..Len(port) : port[k] \in Digits

\* parseHost: TRUE when the host is rejected
parseHostErr(host) ==
    LastIndex(host, ":") # 0 /\ ~validOptionalPort(From(host, LastIndex(host, ":")))

\* parseAuthority: [err, user], user being the userinfo's username
parseAuthority(authority) ==
    LET i == LastIndex(authority, "@")
        host == IF i = 0 THEN authority ELSE From(authority, i + 1)
        userinfo == SubSeq(authority, 1, i - 1)
    IN  IF parseHostErr(host) THEN [err |-> TRUE, user |-> <<>>]
        ELSE IF i = 0 THEN [err |-> FALSE, user |-> <<>>]
        ELSE [err |-> FALSE, user |-> Before(userinfo, ":")]

\* url.Parse followed by u.User.Username(): [err, user]
Parse(rawURL) ==
    LET s == getScheme(rawURL)
        rest == s.rest
    IN  IF s.err THEN [err |-> TRUE, user |-> <<>>]
        ELSE IF ~HasPrefix(rest, <<"/">>) /\ s.scheme # <<>>
             THEN [err |-> FALSE, user |-> <<>>]          \* opaque
        ELSE IF ~HasPrefix(rest, <<"/">>) /\ Index(Before(rest, "/"), ":") # 0
             THEN [err |-> TRUE, user |-> <<>>]           \* colon in first segment
        ELSE IF (s.scheme # <<>> \/ ~HasPrefix(rest, <<"/", "/", "/">>))
                /\ HasPrefix(rest, <<"/", "/">>)
             THEN parseAuthority(Before(From(rest, 3), "/"))
        ELSE [err |-> FALSE, user |-> <<>>]

----------------------------------------------------------------------------
(* gitstuff.go                                                             *)

Unmodified == "Unmodified"
StatusCodes == {Unmodified, "Modified", "Untracked"}

\* countChanges: status maps a file to its [Staging, Worktree] codes; the
\* range loop takes the files in any order
RECURSIVE countChangesOver(_, _)
countChangesOver(status, files) ==
    IF files = {} THEN 0
    ELSE LET f == CHOOSE x \in files : TRUE
             s == status[f]
         IN  (IF s.Staging # Unmodified \/ s.Worktree # Unmodified THEN 1 ELSE 0)
             + countChangesOver(status, files \ {f})

\* countChanges with && for ||
RECURSIVE countBothOver(_, _)
countBothOver(status, files) ==
    IF files = {} THEN 0
    ELSE LET f == CHOOSE x \in files : TRUE
             s == status[f]
         IN  (IF s.Staging # Unmodified /\ s.Worktree # Unmodified THEN 1 ELSE 0)
             + countBothOver(status, files \ {f})

countChangesBoth(status) == countBothOver(status, DOMAIN status)

countChanges(status) == countChangesOver(status, DOMAIN status)

\* cIter.ForEach with the callback of countRemoteChanges.  log.commits is
\* what the iterator yields, log.errAt the position at which its Next fails
\* (0: never).  [err, n]: err is a failure other than storer.ErrStop
RECURSIVE ForEach(_, _, _, _)
ForEach(log, headHash, i, remoteChanges) ==
    IF i = log.errAt THEN [err |-> TRUE, n |-> remoteChanges]
    ELSE IF i > Len(log.commits) THEN [err |-> FALSE, n |-> remoteChanges]
    ELSE IF log.commits[i] = headHash THEN [err |-> FALSE, n |-> remoteChanges]
    ELSE ForEach(log, headHash, i + 1, remoteChanges + 1)

\* countRemoteChanges without the comparison of the two hashes
countRemoteChangesNoFastPath(log, headHash, remoteHash) ==
    IF log.openErr THEN [err |-> TRUE, n |-> 0, logCalls |-> 1]
    ELSE LET r == ForEach(log, headHash, 1, 0)
         IN  IF r.err THEN [err |-> TRUE, n |-> 0, logCalls |-> 1]
             ELSE [err |-> FALSE, n |-> r.n, logCalls |-> 1]

\* countRemoteChanges: [err, n, logCalls], logCalls counting the calls of r.Log
countRemoteChanges(log, headHash, remoteHash) ==
    IF headHash = remoteHash THEN [err |-> FALSE, n |-> 0, logCalls |-> 0]
    ELSE IF log.openErr THEN [err |-> TRUE, n |-> 0, logCalls |-> 1]
    ELSE LET r == ForEach(log, headHash, 1, 0)
         IN  IF r.err THEN [err |-> TRUE, n |-> 0, logCalls |-> 1]
             ELSE [err |-> FALSE, n |-> r.n, logCalls |-> 1]

----------------------------------------------------------------------------
(* The username for the SSH agent auth, visitAndCheckGit lines 90-113.     *)

\* the loop over the remotes: [err, username]
RECURSIVE usernameOf(_, _, _)
usernameOf(remotes, k, username) ==
    IF k > Len(remotes) THEN [err |-> FALSE, username |-> username]
    ELSE IF remotes[k].Name # "origin" THEN usernameOf(remotes, k + 1, username)
    ELSE LET remoteURL == remotes[k].URLs[1]
         IN  IF HasPrefix(remoteURL, Str_gitAt)
             THEN LET parts == Split(remoteURL, "@")
                  IN  usernameOf(remotes, k + 1,
                                 IF Len(parts) > 1 THEN parts[1] ELSE username)
             ELSE LET u == Parse(remoteURL)
                  IN  IF u.err THEN [err |-> TRUE, username |-> username]
                      ELSE usernameOf(remotes, k + 1, u.user)

\* the loop, then the fall back to "git"
deriveUsername(remotes) ==
    LET r == usernameOf(remotes, 1, <<>>)
    IN  IF r.err THEN r
        ELSE [err |-> FALSE,
              username |-> IF r.username = <<>> THEN Str_git ELSE r.username]

----------------------------------------------------------------------------
(* One repository visit, visitAndCheckGit lines 56-158.                    *)
(*                                                                         *)
(* env is what the repository, the agent and the network answer during the *)
(* visit:                                                                  *)
(*   worktree  "ok" | "err"              r.Worktree()                      *)
(*   status    [err, snapshot]           w.Status()                        *)
(*   agent     "ok" | "dialErr" | "signersErr"   the agent behind the socket*)
(*   signers   the number of keys the agent holds                          *)
(*   remotes   [err, list]               r.Remotes(), list of [Name, URLs] *)
(*   auth      "ok" | "err"              gogitssh.NewSSHAgentAuth          *)
(*   fetch     "ok" | "upToDate" | "err" r.Fetch                           *)
(*   head      [err, hash]               r.Head()                          *)
(*   remoteRef [err, hash]               r.Reference(refs/remotes/origin/..)*)
(*   log       [openErr, commits, errAt] r.Log and its iterator            *)
(***************************************************************************)

\* getSignersFromAgent with the error of net.Dial dropped
getSignersDialUnchecked(sock, env) ==
    IF env.agent = "signersErr" THEN [err |-> TRUE, n |-> 0]
    ELSE [err |-> FALSE, n |-> env.signers]

\* getSignersFromAgent: [err, n], n the number of signers
getSignersFromAgent(sock, env) ==
    IF sock = "unset" \/ env.agent = "dialErr" THEN [err |-> TRUE, n |-> 0]
    ELSE IF env.agent = "signersErr" THEN [err |-> TRUE, n |-> 0]
    ELSE [err |-> FALSE, n |-> env.signers]

\* a visit that logs and returns after the last of steps
Abandoned(steps) ==
    [steps |-> steps, failedAt |-> steps[Len(steps)], recorded |-> FALSE,
     username |-> <<>>, LocalChanges |-> 0, RemoteChanges |-> 0]

\* the fetch check with == for the second !=
fetchFailedOnlyUpToDate(fetch) == fetch # "ok" /\ fetch = "upToDate"

\* the fetch check as err != nil alone
fetchFailedAnyErr(fetch) == fetch # "ok"

\* err != nil && err != git.NoErrAlreadyUpToDate
fetchFailed(fetch) == fetch # "ok" /\ fetch # "upToDate"

\* the body of the if err == nil branch: the steps taken, in order, the step
\* that made the visit return early ("none" when the record is appended) and
\* the record's counts
checkRepo(sock, env) ==
    LET s1 == <<"worktree">> IN
    IF env.worktree # "ok" THEN Abandoned(s1) ELSE
    LET s2 == Append(s1, "status") IN
    IF env.status.err THEN Abandoned(s2) ELSE
    LET localChanges == countChanges(env.status.snapshot)
        s3 == Append(s2, "countChanges")
        signers == getSignersFromAgent(sock, env)
        s4 == Append(s3, "agent") IN
    IF signers.err THEN Abandoned(s4) ELSE
    LET s5 == Append(s4, "signers") IN
    IF signers.n = 0 THEN Abandoned(s5) ELSE
    LET s6 == Append(s5, "remotes") IN
    IF env.remotes.err THEN Abandoned(s6) ELSE
    LET u == deriveUsername(env.remotes.list)
        s7 == Append(s6, "username") IN
    IF u.err THEN Abandoned(s7) ELSE
    LET s8 == Append(s7, "auth") IN
    IF env.auth # "ok" THEN [Abandoned(s8) EXCEPT !.username = u.username] ELSE
    LET s9 == Append(s8, "fetch") IN
    IF fetchFailed(env.fetch) THEN [Abandoned(s9) EXCEPT !.username = u.username] ELSE
    LET s10 == Append(s9, "head") IN
    IF env.head.err THEN [Abandoned(s10) EXCEPT !.username = u.username] ELSE
    LET s11 == Append(s10, "remoteRef") IN
    IF env.remoteRef.err THEN [Abandoned(s11) EXCEPT !.username = u.username] ELSE
    LET rc == countRemoteChanges(env.log, env.head.hash, env.remoteRef.hash)
        s12 == Append(s11, "countRemoteChanges") IN
    IF rc.err THEN [Abandoned(s12) EXCEPT !.username = u.username] ELSE
    [steps |-> Append(s12, "append"), failedAt |-> "none", recorded |-> TRUE,
     username |-> u.username, LocalChanges |-> localChanges,
     RemoteChanges |-> rc.n]

----------------------------------------------------------------------------
(* The answers a repository visit is tried with.                           *)

URL_scp == <<"g", "i", "t", "@", "t", ":", "g">>       \* git@t:g
URL_scpOther == <<"i", "@", "t", ":", "g">>            \* i@t:g
URL_ssh == <<"t", ":", "/", "/", "i", "@", "t", "/", "g">>   \* t://i@t/g
URL_plain == <<"t", ":", "/", "/", "t", "/", "g">>     \* t://t/g

Origin(url) == <<[Name |-> "origin", URLs |-> <<url>>]>>

Dirty == [x \in {"f1", "f2"} |->
            IF x = "f1" THEN [Staging |-> "Modified", Worktree |-> Unmodified]
            ELSE [Staging |-> Unmodified, Worktree |-> Unmodified]]

\* a repository one commit ahead of origin with two commits to pull
BaseEnv ==
    [worktree |-> "ok", status |-> [err |-> FALSE, snapshot |-> Dirty],
     agent |-> "ok", signers |-> 1,
     remotes |-> [err |-> FALSE, list |-> Origin(URL_scp)],
     auth |-> "ok", fetch |-> "ok",
     head |-> [err |-> FALSE, hash |-> 1],
     remoteRef |-> [err |-> FALSE, hash |-> 3],
     log |-> [openErr |-> FALSE, commits |-> <<3, 2, 1>>, errAt |-> 0]]

\* the base answers with one step failing
FailingEnvs ==
    { [BaseEnv EXCEPT !.worktree = "err"],
      [BaseEnv EXCEPT !.status.err = TRUE],
      [BaseEnv EXCEPT !.agent = "dialErr"],
      [BaseEnv EXCEPT !.agent = "signersErr"],
      [BaseEnv EXCEPT !.signers = 0],
      [BaseEnv EXCEPT !.remotes.err = TRUE],
      [BaseEnv EXCEPT !.remotes.list = Origin(URL_scpOther)],
      [BaseEnv EXCEPT !.auth = "err"],
      [BaseEnv EXCEPT !.fetch = "err"],
      [BaseEnv EXCEPT !.head.err = TRUE],
      [BaseEnv EXCEPT !.remoteRef.err = TRUE],
      [BaseEnv EXCEPT !.log.openErr = TRUE],
      [BaseEnv EXCEPT !.log.errAt = 2] }

\* answers with which every step succeeds
PassingEnvs ==
    { BaseEnv,
      [BaseEnv EXCEPT !.fetch = "upToDate", !.remoteRef.hash = 1],
      [BaseEnv EXCEPT !.remotes.list = Origin(URL_ssh)],
      [BaseEnv EXCEPT !.remotes.list =
                          <<[Name |-> "upstream", URLs |-> <<URL_ssh>>]>>
                          \o Origin(URL_plain),
                      !.log.errAt = 4] }

RepoEnvs == FailingEnvs \cup PassingEnvs

\* every step of a visit answers without an error (already-up-to-date is
\* no error)
EveryStepSucceeds(sock, env) ==
    /\ env.worktree = "ok"
    /\ ~env.status.err
    /\ sock = "set" /\ env.agent = "ok" /\ env.signers > 0
    /\ ~env.remotes.err
    /\ ~deriveUsername(env.remotes.list).err
    /\ env.auth = "ok"
    /\ env.fetch \in {"ok", "upToDate"}
    /\ ~env.head.err
    /\ ~env.remoteRef.err
    /\ ~countRemoteChanges(env.log, env.head.hash, env.remoteRef.hash).err

----------------------------------------------------------------------------
(* The directory tree.  An entry of a listing carries what its Type() says *)
(* (dir, symlink: a symlink is no directory to Type()) and what following  *)
(* the link would find (targetDir).                                        *)

RootPath == <<>>

Dir(n) == [name |-> n, dir |-> TRUE, symlink |-> FALSE, targetDir |-> TRUE]
File(n) == [name |-> n, dir |-> FALSE, symlink |-> FALSE, targetDir |-> FALSE]
LinkToDir(n) == [name |-> n, dir |-> FALSE, symlink |-> TRUE, targetDir |-> TRUE]

\* root/{a, b/c, d, f (a file), l -> a directory}
Dirs == {RootPath, <<"a">>, <<"b">>, <<"b", "c">>, <<"d">>, <<"l">>}

\* what os.ReadDir returns for a directory, sorted by name
Listing(path) ==
    IF path = RootPath
    THEN <<Dir("a"), Dir("b"), Dir("d"), File("f"), LinkToDir("l")>>
    ELSE IF path = <<"b">> THEN <<Dir("c")>>
    ELSE <<>>

\* the directories that os.ReadDir may fail on
MayBeUnreadable == {RootPath, <<"b">>}

\* the -depth values main is started with
DepthFlags == (0..MaxDepthFlag) \cup {DefaultDepth}

\* the entry test with the type of the link's target (os.Stat for Lstat)
isDirFollowingLinks(f) == f.targetDir

\* f.Type().IsDir() && f.Type()&os.ModeSymlink != os.ModeSymlink
isPlainDir(f) == f.dir /\ ~f.symlink

\* the depth test off by one
tooDeepOffByOne(depth, max) == depth > max + 1

\* depth > maxDepth
tooDeep(depth, max) == depth > max

\* git.PlainOpen(path) returns no error
plainOpens(path) == path \in repoDirs

\* os.ReadDir(path) returns an error
readDirFails(path) == path \notin Dirs \/ path \in unreadable

\* the record put at the front of the list
prependRepo(list, rec) == <<rec>> \o list

\* the repository branch falling through to the listing below it
fallThroughToListing(stk) ==
    <<[kind |-> "loop", path |-> Head(stk).path, depth |-> Head(stk).depth,
       files |-> Listing(Head(stk).path), i |-> 1]>> \o Tail(stk)

\* repos = append(repos, repoStatus{...})
appendRepo(list, rec) == Append(list, rec)

\* the return that ends every path through the repository branch: the call
\* is over, whatever the directory holds
returnFromRepo(stk) == Tail(stk)

Call(path, depth) ==
    [kind |-> "call", path |-> path, depth |-> depth, files |-> <<>>, i |-> 0]

Loop(path, depth, files) ==
    [kind |-> "loop", path |-> path, depth |-> depth, files |-> files, i |-> 1]

NoVisit == [path |-> <<"-">>, steps |-> <<>>, failedAt |-> "none",
            recorded |-> FALSE, username |-> <<>>,
            LocalChanges |-> 0, RemoteChanges |-> 0,
            agent |-> "ok", signers |-> 0]

NoProbe == [kind |-> "none"]

Init ==
    /\ maxDepth = 0
    /\ repos = <<>>
    /\ sshAuthSock \in {"set", "unset"}
    /\ repoDirs \in {R \in SUBSET Dirs : Cardinality(R) <= MaxRepos}
    /\ unreadable \in SUBSET MayBeUnreadable
    /\ pc = "start"
    /\ stack = <<>>
    /\ printed = <<>>
    /\ visited = <<>>
    /\ listed = {}
    /\ healthy = {}
    /\ faulty = {}
    /\ last = NoVisit
    /\ probe = NoProbe

\* main, lines 176-188: the flag, then the call visitAndCheckGit(rootPath, 0)
MainStart ==
    /\ pc = "start"
    /\ \E d \in DepthFlags : maxDepth' = d
    /\ stack' = <<Call(RootPath, 0)>>
    /\ pc' = "walk"
    /\ UNCHANGED <<repos, sshAuthSock, repoDirs, unreadable, printed, visited,
                   listed, healthy, faulty, last, probe>>

\* visitAndCheckGit, lines 48-50: too deep, return
DepthExceeded ==
    /\ pc = "walk" /\ stack # <<>>
    /\ Head(stack).kind = "call"
    /\ tooDeep(Head(stack).depth, maxDepth)
    /\ stack' = Tail(stack)
    /\ UNCHANGED <<maxDepth, repos, sshAuthSock, repoDirs, unreadable, pc,
                   printed, visited, listed, healthy, faulty, last, probe>>

\* visitAndCheckGit, lines 54-159: the path opens as a repository
VisitRepo ==
    /\ pc = "walk" /\ stack # <<>>
    /\ Head(stack).kind = "call"
    /\ ~tooDeep(Head(stack).depth, maxDepth)
    /\ plainOpens(Head(stack).path)
    /\ \E env \in RepoEnvs :
         LET path == Head(stack).path
             r == checkRepo(sshAuthSock, env)
         IN  /\ repos' = IF r.recorded
                         THEN appendRepo(repos,
                                         [Path |-> path,
                                          LocalChanges |-> r.LocalChanges,
                                          RemoteChanges |-> r.RemoteChanges])
                         ELSE repos
             /\ visited' = Append(visited, path)
             /\ healthy' = IF EveryStepSucceeds(sshAuthSock, env)
                           THEN healthy \cup {path} ELSE healthy
             /\ faulty' = IF EveryStepSucceeds(sshAuthSock, env)
                          THEN faulty ELSE faulty \cup {path}
             /\ last' = [path |-> path, steps |-> r.steps,
                         failedAt |-> r.failedAt, recorded |-> r.recorded,
                         username |-> r.username,
                         LocalChanges |-> r.LocalChanges,
                         RemoteChanges |-> r.RemoteChanges,
                         agent |-> env.agent, signers |-> env.signers]
    /\ stack' = returnFromRepo(stack)
    /\ UNCHANGED <<maxDepth, sshAuthSock, repoDirs, unreadable, pc, printed,
                   listed, probe>>

\* visitAndCheckGit, lines 54-55 and 161-166: the path does not open, and is
\* listed
VisitDir ==
    /\ pc = "walk" /\ stack # <<>>
    /\ Head(stack).kind = "call"
    /\ ~tooDeep(Head(stack).depth, maxDepth)
    /\ ~plainOpens(Head(stack).path)
    /\ visited' = Append(visited, Head(stack).path)
    /\ listed' = listed \cup {Head(stack).path}
    /\ stack' = IF readDirFails(Head(stack).path)
                THEN Tail(stack)
                ELSE <<Loop(Head(stack).path, Head(stack).depth,
                            Listing(Head(stack).path))>> \o Tail(stack)
    /\ UNCHANGED <<maxDepth, repos, sshAuthSock, repoDirs, unreadable, pc,
                   printed, healthy, faulty, last, probe>>

\* visitAndCheckGit, lines 168-172: one turn of the loop over the entries
LoopEntry ==
    /\ pc = "walk" /\ stack # <<>>
    /\ Head(stack).kind = "loop"
    /\ Head(stack).i <= Len(Head(stack).files)
    /\ LET top == Head(stack)
           f == top.files[top.i]
           next == [top EXCEPT !.i = top.i + 1]
       IN  stack' = IF isPlainDir(f)
                    THEN <<Call(Append(top.path, f.name), top.depth + 1), next>>
                         \o Tail(stack)
                    ELSE <<next>> \o Tail(stack)
    /\ UNCHANGED <<maxDepth, repos, sshAuthSock, repoDirs, unreadable, pc,
                   printed, visited, listed, healthy, faulty, last, probe>>

\* visitAndCheckGit, lines 168-173: the loop is over, return
LoopEnd ==
    /\ pc = "walk" /\ stack # <<>>
    /\ Head(stack).kind = "loop"
    /\ Head(stack).i > Len(Head(stack).files)
    /\ stack' = Tail(stack)
    /\ UNCHANGED <<maxDepth, repos, sshAuthSock, repoDirs, unreadable, pc,
                   printed, visited, listed, healthy, faulty, last, probe>>

\* main, line 188: visitAndCheckGit(rootPath, 0) has returned
WalkReturns ==
    /\ pc = "walk" /\ stack = <<>>
    /\ pc' = "report"
    /\ UNCHANGED <<maxDepth, repos, sshAuthSock, repoDirs, unreadable, stack,
                   printed, visited, listed, healthy, faulty, last, probe>>

\* main, lines 191-195: one turn of the loop that prints the records
PrintRepo ==
    /\ pc = "report"
    /\ Len(printed) < Len(repos)
    /\ printed' = Append(printed, repos[Len(printed) + 1])
    /\ UNCHANGED <<maxDepth, repos, sshAuthSock, repoDirs, unreadable, pc,
                   stack, visited, listed, healthy, faulty, last, probe>>

\* main, line 196: the loop is over, main returns
MainReturns ==
    /\ pc = "report"
    /\ Len(printed) >= Len(repos)
    /\ pc' = "done"
    /\ UNCHANGED <<maxDepth, repos, sshAuthSock, repoDirs, unreadable, stack,
                   printed, visited, listed, healthy, faulty, last, probe>>

Next ==
    \/ MainStart
    \/ DepthExceeded
    \/ VisitRepo
    \/ VisitDir
    \/ LoopEntry
    \/ LoopEnd
    \/ WalkReturns
    \/ PrintRepo
    \/ MainReturns

Spec == Init /\ [][Next]_vars

\* the program is one thread that runs until main returns
FairSpec == Spec /\ WF_vars(Next)

----------------------------------------------------------------------------
(* The functions of gitstuff.go and the username derivation applied on     *)
(* their own: probe holds the input, and the output once it is computed.   *)

Idle ==
    /\ maxDepth = 0
    /\ repos = <<>>
    /\ sshAuthSock = "set"
    /\ repoDirs = {}
    /\ unreadable = {}
    /\ pc = "probe"
    /\ stack = <<>>
    /\ printed = <<>>
    /\ visited = <<>>
    /\ listed = {}
    /\ healthy = {}
    /\ faulty = {}
    /\ last = NoVisit

FileNames == 1..MaxFiles

\* the status snapshots: any files, any pair of codes for each
Statuses ==
    UNION { [F -> [Staging : StatusCodes, Worktree : StatusCodes]] :
            F \in SUBSET FileNames }

InitCount ==
    /\ Idle
    /\ \E s \in Statuses :
         probe = [kind |-> "countChanges", status |-> s, done |-> FALSE, out |-> 0]

ApplyCountChanges ==
    /\ probe.kind = "countChanges" /\ ~probe.done
    /\ probe' = [probe EXCEPT !.done = TRUE, !.out = countChanges(probe.status)]
    /\ UNCHANGED <<maxDepth, repos, sshAuthSock, repoDirs, unreadable, pc,
                   stack, printed, visited, listed, healthy, faulty, last>>

SpecCount == InitCount /\ [][ApplyCountChanges]_vars

Hashes == 1..MaxCommits

\* the histories an iterator yields: commits without repetition
Histories ==
    { h \in UNION { [1..n -> Hashes] : n \in 1..MaxCommits } :
        \A i, j \in 1..Len(h) : i # j => h[i] # h[j] }

\* r.Log(From: remote) yields the remote commit first
InitLog ==
    /\ Idle
    /\ \E h \in Histories, head \in Hashes, e \in 0..(MaxCommits + 1),
          o \in BOOLEAN, same \in BOOLEAN :
         probe = [kind |-> "countRemoteChanges",
                  log |-> [openErr |-> o, commits |-> h, errAt |-> e],
                  head |-> IF same THEN h[1] ELSE head, remote |-> h[1],
                  done |-> FALSE,
                  out |-> [err |-> FALSE, n |-> 0, logCalls |-> 0]]

ApplyCountRemoteChanges ==
    /\ probe.kind = "countRemoteChanges" /\ ~probe.done
    /\ probe' = [probe EXCEPT !.done = TRUE,
                   !.out = countRemoteChanges(probe.log, probe.head, probe.remote)]
    /\ UNCHANGED <<maxDepth, repos, sshAuthSock, repoDirs, unreadable, pc,
                   stack, printed, visited, listed, healthy, faulty, last>>

SpecLog == InitLog /\ [][ApplyCountRemoteChanges]_vars

URLChars == {"g", "i", "t", "@", ":", "/"}

URLs == UNION { [1..n -> URLChars] : n \in 1..MaxURLLen }

\* the remotes: none, origin alone, or another remote alone
InitURL ==
    /\ Idle
    /\ \E rs \in {<<>>} \cup { <<[Name |-> n, URLs |-> <<u>>]>> :
                               n \in {"origin", "upstream"}, u \in URLs } :
         probe = [kind |-> "username", remotes |-> rs, done |-> FALSE,
                  out |-> [err |-> FALSE, username |-> <<>>]]

ApplyDeriveUsername ==
    /\ probe.kind = "username" /\ ~probe.done
    /\ probe' = [probe EXCEPT !.done = TRUE, !.out = deriveUsername(probe.remotes)]
    /\ UNCHANGED <<maxDepth, repos, sshAuthSock, repoDirs, unreadable, pc,
                   stack, printed, visited, listed, healthy, faulty, last>>

SpecURL == InitURL /\ [][ApplyDeriveUsername]_vars

----------------------------------------------------------------------------
(* Vocabulary of the properties.                                           *)

Range(q) == { q[k] : k \in 1..Len(q) }

IsPrefixOf(q, r) == Len(q) <= Len(r) /\ SubSeq(r, 1, Len(q)) = q

StrictlyBelow(p, q) == Len(p) > Len(q) /\ SubSeq(p, 1, Len(q)) = q

RecordPaths == { repos[k].Path : k \in 1..Len(repos) }

\* the entries named p[k] in the listing of p's first k-1 names
EntriesAt(p, k) ==
    { f \in Range(Listing(SubSeq(p, 1, k - 1))) : f.name = p[k] }

\* every name of p is a directory entry that is no symlink
PlainPath(p) ==
    \A k \in 1..Len(p) : \E f \in EntriesAt(p, k) : f.dir /\ ~f.symlink

\* some name of p is a symlink entry
ThroughSymlink(p) ==
    \E k \in 1..Len(p) : \E f \in EntriesAt(p, k) : f.symlink

\* every directory above p failed to open as a repository and was listed
AncestorsListed(p) ==
    \A k \in 0..(Len(p) - 1) :
        /\ SubSeq(p, 1, k) \notin repoDirs
        /\ SubSeq(p, 1, k) \in Dirs
        /\ SubSeq(p, 1, k) \notin unreadable

\* the walk has to come to p
Reachable(p) == Len(p) <= maxDepth /\ PlainPath(p) /\ AncestorsListed(p)

StepOrder ==
    <<"worktree", "status", "countChanges", "agent", "signers", "remotes",
      "username", "auth", "fetch", "head", "remoteRef", "countRemoteChanges",
      "append">>

\* the depth-first order of the tree: a directory, then its subdirectories
\* in the order of its listing
RECURSIVE Preorder(_, _), PreorderOf(_, _, _, _)
Preorder(path, depth) ==
    IF depth > maxDepth THEN <<>>
    ELSE IF path \in repoDirs \/ path \notin Dirs \/ path \in unreadable
         THEN <<path>>
    ELSE <<path>> \o PreorderOf(path, depth, Listing(path), 1)

PreorderOf(path, depth, files, k) ==
    IF k > Len(files) THEN <<>>
    ELSE (IF files[k].dir /\ ~files[k].symlink
          THEN Preorder(Append(path, files[k].name), depth + 1)
          ELSE <<>>)
         \o PreorderOf(path, depth, files, k + 1)

\* the place of path p in the visitation order (0: not visited)
VisitIndex(p) ==
    IF p \in Range(visited) THEN CHOOSE k \in 1..Len(visited) : visited[k] = p
    ELSE 0

----------------------------------------------------------------------------
(* C1. A repository visit in which a step fails leaves the result list as  *)
(* it was: every record of the list is for a directory that opened as a    *)
(* repository and passed every step, and no directory with a failed step   *)
(* has a record.                                                           *)
C1_FailedVisitRecordsNothing ==
    /\ [][faulty' # faulty => repos' = repos]_vars
    /\ [](/\ \A p \in RecordPaths : p \in repoDirs /\ p \in healthy
          /\ \A p \in faulty : p \notin RecordPaths
          /\ last.failedAt # "none" => ~last.recorded /\ last.path \notin RecordPaths)

\* a visit abandoned at the fetch after another repository was recorded
C1_Witness ==
    /\ last.failedAt = "fetch"
    /\ last.path \in faulty
    /\ Len(repos) = 1

(* C2. The walk ends, and at its end every directory within the depth      *)
(* bound that is reached through listed plain directories and opens as a   *)
(* repository has been visited, and has a record unless a step of its      *)
(* visit failed (already-up-to-date is no failure); the tree               *)
(* root/{a/.git, b/c/.git, d} with depth 4 gives the two records root/a    *)
(* and root/b/c.                                                           *)
C2_WalkCompletes ==
    /\ <>(pc = "done")
    /\ [](pc = "done" =>
            /\ stack = <<>>
            /\ \A d \in Dirs :
                 Reachable(d) /\ d \in repoDirs =>
                   /\ d \in healthy \cup faulty
                   /\ d \notin faulty => d \in RecordPaths
            /\ \A d \in Dirs :
                 Reachable(d) /\ d \notin repoDirs => d \in listed
            /\ ( /\ repoDirs = {<<"a">>, <<"b", "c">>}
                 /\ unreadable = {}
                 /\ maxDepth = DefaultDepth
                 /\ faulty = {} )
               => /\ Len(repos) = 2
                  /\ repos[1].Path = <<"a">>
                  /\ repos[2].Path = <<"b", "c">>)

\* the visit of root/a failed and root/b/c, visited after it, is recorded
C2_Witness ==
    /\ pc = "done"
    /\ <<"a">> \in faulty
    /\ <<"b", "c">> \in healthy
    /\ <<"b", "c">> \in RecordPaths
    /\ <<"d">> \in listed

(* C3. Nothing strictly below a directory that opened as a repository is   *)
(* ever visited, listed, called or recorded.                               *)
C3_NothingBelowARepository ==
    \A q \in Range(visited) \cap repoDirs :
        /\ \A p \in Range(visited) \cup listed \cup RecordPaths :
               ~StrictlyBelow(p, q)
        /\ \A k \in 1..Len(stack) : ~StrictlyBelow(stack[k].path, q)

\* root/b opened as a repository, failed a step, and holds the repository
\* root/b/c, which the depth bound allows
C3_Witness ==
    /\ pc = "done"
    /\ <<"b">> \in faulty
    /\ <<"b", "c">> \in repoDirs
    /\ maxDepth >= 2

(* C4. No directory deeper than maxDepth is opened, listed or recorded,    *)
(* while the directories at depth maxDepth that the walk has to come to    *)
(* are visited; with depth 0 and a root that is no repository the final    *)
(* list is empty.                                                          *)
C4_DepthBound ==
    /\ \A p \in Range(visited) \cup listed \cup RecordPaths : Len(p) <= maxDepth
    /\ \A k \in 1..Len(stack) :
         /\ stack[k].depth = Len(stack[k].path)
         /\ stack[k].kind = "loop" => stack[k].depth <= maxDepth
    /\ pc = "done" =>
         /\ \A d \in Dirs :
              Len(d) = maxDepth /\ Reachable(d) => d \in Range(visited)
         /\ maxDepth = 0 /\ RootPath \notin repoDirs => repos = <<>>

\* depth 1: root/b is visited and listed, the repository root/b/c is not
C4_Witness ==
    /\ pc = "done"
    /\ maxDepth = 1
    /\ <<"b">> \in listed
    /\ <<"b", "c">> \in repoDirs
    /\ <<"b", "c">> \notin Range(visited)
    /\ <<"a">> \in RecordPaths

(* C5. No path that passes through a symlink entry is visited, listed,     *)
(* called or recorded, whatever the link points at.                        *)
C5_SymlinksNotFollowed ==
    /\ \A p \in Range(visited) \cup listed \cup RecordPaths : ~ThroughSymlink(p)
    /\ \A k \in 1..Len(stack) : ~ThroughSymlink(stack[k].path)

\* root was listed and its symlink l points at a repository
C5_Witness ==
    /\ pc = "done"
    /\ RootPath \in listed
    /\ RootPath \notin unreadable
    /\ <<"l">> \in repoDirs
    /\ maxDepth >= 1
    /\ <<"d">> \in Range(visited)

(* C6. The result list only grows at its end; the visits follow the        *)
(* depth-first order of the tree with siblings in listing order, no path   *)
(* twice; the records are in the order of their visits, one per path; and  *)
(* main prints the records once each, in list order, after the walk.       *)
C6_InsertionOrderIsVisitOrder ==
    /\ [][/\ IsPrefixOf(repos, repos')
          /\ IsPrefixOf(printed, printed')
          /\ IsPrefixOf(visited, visited')
          /\ printed' # printed => stack = <<>> /\ repos' = repos]_vars
    /\ [](/\ IsPrefixOf(visited, Preorder(RootPath, 0))
          /\ \A i, j \in 1..Len(visited) : i # j => visited[i] # visited[j]
          /\ \A i, j \in 1..Len(repos) :
               i < j => /\ VisitIndex(repos[i].Path) > 0
                        /\ VisitIndex(repos[i].Path) < VisitIndex(repos[j].Path)
          /\ IsPrefixOf(printed, repos)
          /\ pc \in {"start", "walk"} => printed = <<>>
          /\ pc = "done" => printed = repos /\ visited = Preorder(RootPath, 0))

\* two records, printed in the order they were appended in
C6_Witness ==
    /\ pc = "done"
    /\ Len(printed) = 2
    /\ printed[1].Path = <<"a">>
    /\ printed[2].Path = <<"d">>
    /\ <<"b">> \in listed

(* C7. countChanges(S) is the number of paths of S whose staged state or   *)
(* worktree state is not unmodified: 0 for the empty snapshot, never       *)
(* negative, never more than the number of paths.                          *)
C7_CountChanges ==
    probe.kind = "countChanges" /\ probe.done =>
        LET S == probe.status
        IN  /\ probe.out = Cardinality({ f \in DOMAIN S :
                                \/ S[f].Staging # Unmodified
                                \/ S[f].Worktree # Unmodified })
            /\ probe.out >= 0
            /\ probe.out <= Cardinality(DOMAIN S)
            /\ DOMAIN S = {} => probe.out = 0

\* three paths: one staged only, one changed in the worktree only, one clean
C7_Witness ==
    /\ probe.kind = "countChanges" /\ probe.done
    /\ DOMAIN probe.status = {1, 2, 3}
    /\ probe.status[1] = [Staging |-> "Modified", Worktree |-> Unmodified]
    /\ probe.status[2] = [Staging |-> Unmodified, Worktree |-> "Untracked"]
    /\ probe.status[3] = [Staging |-> Unmodified, Worktree |-> Unmodified]
    /\ probe.out = 2

(* C8. countRemoteChanges: equal hashes give 0 without a call of r.Log;    *)
(* otherwise the count is the number of commits yielded before the first   *)
(* one that is the local HEAD, or of all the commits yielded when the      *)
(* iteration ends without it; an error of r.Log or of the iteration gives  *)
(* a failure and no count.                                                 *)
C8_CountRemoteChanges ==
    probe.kind = "countRemoteChanges" /\ probe.done =>
        LET h == probe.log.commits
            e == probe.log.errAt
            \* the commits the iterator yields before it fails or ends
            yielded == IF e \in 1..Len(h) THEN SubSeq(h, 1, e - 1) ELSE h
            found == \E k \in 1..Len(yielded) : yielded[k] = probe.head
            at == CHOOSE k \in 1..Len(yielded) : yielded[k] = probe.head
            out == probe.out
        IN  IF probe.head = probe.remote
            THEN ~out.err /\ out.n = 0 /\ out.logCalls = 0
            ELSE /\ out.logCalls = 1
                 /\ IF probe.log.openErr THEN out.err /\ out.n = 0
                    ELSE IF found THEN ~out.err /\ out.n = at - 1
                    ELSE IF e \in 1..(Len(h) + 1) THEN out.err /\ out.n = 0
                    ELSE ~out.err /\ out.n = Len(h)

\* the history [R3, R2, R1 = local HEAD] gives 2
C8_Witness ==
    /\ probe.kind = "countRemoteChanges" /\ probe.done
    /\ probe.log.commits = <<3, 2, 1>>
    /\ ~probe.log.openErr /\ probe.log.errAt = 0
    /\ probe.head = 1 /\ probe.remote = 3
    /\ probe.out = [err |-> FALSE, n |-> 2, logCalls |-> 1]

\* user@host:path: a user and a host of letters, with "@" between them and
\* ":" after them
ScpLike(u) ==
    /\ Index(u, "@") > 1
    /\ Index(u, ":") > Index(u, "@") + 1
    /\ \A k \in 1..(Index(u, ":") - 1) : k # Index(u, "@") => u[k] \in Letters

(* C9. The username: for an origin URL of the form user@host:path the part *)
(* before the "@", for every user; for any other origin URL that parses,   *)
(* the username of its user info; "git" when neither gives one or there is *)
(* no origin; never empty.                                                 *)
C9_UsernameOfEveryScpUser ==
    probe.kind = "username" /\ probe.done =>
        LET rs == probe.remotes
            out == probe.out
        IN  /\ ~out.err => out.username # <<>>
            /\ (rs = <<>> \/ rs[1].Name # "origin") =>
                   ~out.err /\ out.username = Str_git
            /\ (rs # <<>> /\ rs[1].Name = "origin") =>
                   LET u == rs[1].URLs[1]
                   IN  IF ScpLike(u)
                       THEN ~out.err /\ out.username = Before(u, "@")
                       ELSE \/ Parse(u).err
                            \/ /\ ~out.err
                               /\ out.username = IF Parse(u).user = <<>>
                                                 THEN Str_git
                                                 ELSE Parse(u).user

(* C10, as stated. The steps of a visit run in the fixed order, a fetch    *)
(* only after the agent gave a signer; and without SSH_AUTH_SOCK or        *)
(* without a reachable agent every repository visit is abandoned at the    *)
(* authenticator step, with no fetch and no record.                        *)
C10_EveryVisitEndsAtTheAgent ==
    last # NoVisit =>
        /\ IsPrefixOf(last.steps, StepOrder)
        /\ (sshAuthSock = "unset" \/ last.agent = "dialErr") =>
               /\ last.failedAt = "agent"
               /\ "fetch" \notin Range(last.steps)
               /\ ~last.recorded

(* C10, amended. The steps of a visit run in the fixed order, a fetch only *)
(* after the agent was dialed and gave a signer; without SSH_AUTH_SOCK or  *)
(* without a reachable agent a repository visit is abandoned at the        *)
(* authenticator step unless its worktree or status step failed before,    *)
(* in every case with no fetch and no record, and the walk still comes to  *)
(* every directory it has to come to.                                      *)
C10_NoFetchWithoutAgent ==
    /\ last # NoVisit =>
        /\ IsPrefixOf(last.steps, StepOrder)
        /\ last.steps # <<>>
        /\ last.recorded <=> last.steps = StepOrder
        /\ "fetch" \in Range(last.steps) =>
               sshAuthSock = "set" /\ last.agent = "ok" /\ last.signers > 0
        /\ (sshAuthSock = "unset" \/ last.agent = "dialErr") =>
               /\ last.failedAt \in {"worktree", "status", "agent"}
               /\ Len(last.steps) > 2 => last.failedAt = "agent"
               /\ "fetch" \notin Range(last.steps)
               /\ ~last.recorded
    /\ sshAuthSock = "unset" =>
        /\ repos = <<>>
        /\ healthy = {}
        /\ pc = "done" =>
             \A d \in Dirs : Reachable(d) =>
                 IF d \in repoDirs THEN d \in faulty ELSE d \in listed

\* no SSH_AUTH_SOCK: two repositories visited, the last one abandoned at the
\* agent, and the directory after them listed
C10_Witness ==
    /\ pc = "done"
    /\ sshAuthSock = "unset"
    /\ faulty = {<<"a">>, <<"b", "c">>}
    /\ last.failedAt = "agent"
    /\ <<"d">> \in listed
====
